---------------------------- MODULE Spec2Model ----------------------------
(* Selection controller and category graph of the ITOM mind map            *)
(* (src/src/App.tsx).  The file holds two variants of the application: the *)
(* responsive one (lines 1-332) and the fixed-size one (lines 334-612).    *)
(* Both are modelled; the variable `variant` says which one is running.    *)
EXTENDS Integers, Sequences, FiniteSets, TLC

VARIABLES
    summaries,      \* the imported Pairing Table: entries in authoring order
    variant,        \* "responsive" or "fixed"
    selectedItems,  \* useState<string[]>([])
    summary,        \* useState<string>('')
    activeTab,      \* useState(0)
    width,          \* width of the graph container, read by updateDimensions
    drawn,          \* names of the nodes in the svg of the shown panel, hub first
    simStatus,      \* the simulation of the latest layout: "none", "running", "ended"
    leafFx,         \* leaf nodes of the drawn graph that carry fx/fy
    hubFx,          \* categories of mindmapData whose object carries fx/fy
    orphans,        \* earlier simulations that were never stopped and still run
    rebuilt,        \* history: the last step ran the layout effect to its end
    calls,          \* history: item names passed to handleNodeSelect since the last reset
    last            \* history: the last operation, with the state it started from

vars == <<summaries, variant, selectedItems, summary, activeTab, width, drawn,
          simStatus, leafFx, hubFx, orphans, rebuilt, calls, last>>

-----------------------------------------------------------------------------
(* Bounds of the model.                                                    *)

\* how many of the candidate pairs the Pairing Table may hold
NumPairs == 2
\* how many handleNodeSelect calls the call history follows after a reset
MaxCalls == 3
\* how many unstopped earlier simulations are counted; the count stops there
MaxOrphans == 1
\* how many categories' simulations are followed to their end
MaxPinnedHubs == 1

-----------------------------------------------------------------------------
(* JavaScript strings.  Strings are TLA+ strings; characters are compared  *)
(* by UTF-16 code unit, as Array.prototype.sort does without a comparator. *)

\* the characters of the data set, in ascending code-unit order
Alphabet == " ,-ABCDEFGHIJKLMNOPQRSTUVWXYZabcdefghijklmnopqrstuvwxyz"

CharAt(s, i) == SubSeq(s, i, i)

CharCode(c) == CHOOSE i \in 1..Len(Alphabet) : CharAt(Alphabet, i) = c

RECURSIVE StrLessFrom(_, _, _)
StrLessFrom(a, b, i) ==
    IF i > Len(b) THEN FALSE
    ELSE IF i > Len(a) THEN TRUE
    ELSE IF CharCode(CharAt(a, i)) < CharCode(CharAt(b, i)) THEN TRUE
    ELSE IF CharCode(CharAt(a, i)) > CharCode(CharAt(b, i)) THEN FALSE
    ELSE StrLessFrom(a, b, i + 1)

\* a < b in the order of the default sort
StrLess(a, b) == StrLessFrom(a, b, 1)

\* [a, b].sort()
SortPair(a, b) == IF StrLess(b, a) THEN <<b, a>> ELSE <<a, b>>

\* array.join(',')
RECURSIVE Join(_)
Join(parts) ==
    IF Len(parts) = 0 THEN ""
    ELSE IF Len(parts) = 1 THEN parts[1]
    ELSE parts[1] \o "," \o Join(Tail(parts))

\* string.split(','): the pieces between the commas, from position i on,
\* `cur` being the piece read so far
RECURSIVE SplitFrom(_, _, _)
SplitFrom(s, i, cur) ==
    IF i > Len(s) THEN <<cur>>
    ELSE IF CharAt(s, i) = "," THEN <<cur>> \o SplitFrom(s, i + 1, "")
    ELSE SplitFrom(s, i + 1, cur \o CharAt(s, i))

Split(s) == SplitFrom(s, 1, "")

\* array.includes(x)
Includes(arr, x) == \E i \in 1..Len(arr) : arr[i] = x

\* array.filter(i => i !== x)
RECURSIVE Without(_, _)
Without(arr, x) ==
    IF Len(arr) = 0 THEN <<>>
    ELSE IF Head(arr) = x THEN Without(Tail(arr), x)
    ELSE <<Head(arr)>> \o Without(Tail(arr), x)

Range(arr) == {arr[i] : i \in 1..Len(arr)}

-----------------------------------------------------------------------------
(* The taxonomy.                                                           *)

mindmapData ==
    [name |-> "ITOM Market",
     children |-> <<
        [name |-> "Technologies",
         children |-> <<"Cloud Management", "AIOps", "Automation", "Network Monitoring",
                        "APM", "ITSM", "Infrastructure Monitoring", "Log Analytics">>],
        [name |-> "Market Trends",
         children |-> <<"Digital Transformation", "Multi-Cloud Adoption", "Edge Computing",
                        "DevOps Integration", "Containerization", "Cybersecurity">>],
        [name |-> "Key Players",
         children |-> <<"ServiceNow", "BMC", "IBM", "Splunk", "Datadog", "Dynatrace",
                        "New Relic", "Microsoft">>],
        [name |-> "Challenges",
         children |-> <<"Skill Gap", "Integration Complexity", "Data Privacy",
                        "Legacy Systems">>],
        [name |-> "Benefits",
         children |-> <<"Efficiency", "Cost Reduction", "User Experience",
                        "Fast Resolution", "Proactive Prevention">>],
        [name |-> "Industry Verticals",
         children |-> <<"Finance", "Healthcare", "Retail", "Manufacturing", "Telecom",
                        "Government">>],
        [name |-> "Future Outlook",
         children |-> <<"Predictive Analytics", "Autonomous Ops">>]
     >>]

Categories == Range(mindmapData.children)

HubNames == {c.name : c \in Categories}

LeafItems == UNION {Range(c.children) : c \in Categories}

CategoryOf(x) == CHOOSE c \in Categories : Includes(c.children, x)

CrossCategory(a, b) ==
    /\ a \in LeafItems
    /\ b \in LeafItems
    /\ CategoryOf(a) # CategoryOf(b)

-----------------------------------------------------------------------------
(* The Pairing Table.  `summaries` is imported from ./summaries, which is  *)
(* not part of the sources at hand; the table follows the specification:   *)
(* every key is the two names of a cross-category pair of leaf items,      *)
(* sorted and joined by a comma, and maps to an authored (non-empty) text. *)

\* pairs an author may have written a summary for, in authoring order
CandidatePairs ==
    << <<"AIOps", "ServiceNow">>,
       <<"ServiceNow", "Cybersecurity">>,
       <<"Splunk", "AIOps">>,
       <<"New Relic", "Network Monitoring">>,
       <<"Log Analytics", "Legacy Systems">>,
       <<"Finance", "AIOps">> >>

CanonicalKey(a, b) == Join(SortPair(a, b))

TableEntry(i) ==
    LET k == CanonicalKey(CandidatePairs[i][1], CandidatePairs[i][2])
    IN  [key |-> k, text |-> "Summary of " \o k]

RECURSIVE EntriesFrom(_, _)
EntriesFrom(S, i) ==
    IF i > NumPairs THEN <<>>
    ELSE (IF i \in S THEN <<TableEntry(i)>> ELSE <<>>) \o EntriesFrom(S, i + 1)

PairingTables == {EntriesFrom(S, 1) : S \in SUBSET (1..NumPairs)}

\* Object.keys(summaries)
ObjectKeys(tbl) == [i \in 1..Len(tbl) |-> tbl[i].key]

Undefined == "<undefined>"

\* summaries[key]
Get(tbl, key) ==
    IF \E i \in 1..Len(tbl) : tbl[i].key = key
    THEN tbl[CHOOSE i \in 1..Len(tbl) : tbl[i].key = key].text
    ELSE Undefined

\* a JavaScript string or undefined, used as a condition
Truthy(v) == v # Undefined /\ v # ""

\* the table has an entry for the unordered pair {a, b}
HasEntry(a, b) == Get(summaries, CanonicalKey(a, b)) # Undefined

EntryText(a, b) == Get(summaries, CanonicalKey(a, b))

-----------------------------------------------------------------------------
(* handleNodeSelect.                                                       *)

\* Object.keys(summaries).find(k => k.split(',').includes(prev[0])
\*                                  && k.split(',').includes(item))
FindKey(a, item) ==
    LET keys == ObjectKeys(summaries)
        hit(k) == Includes(Split(k), a) /\ Includes(Split(k), item)
    IN  IF \E i \in 1..Len(keys) : hit(keys[i])
        THEN keys[CHOOSE i \in 1..Len(keys) :
                     hit(keys[i]) /\ \A j \in 1..(i - 1) : ~hit(keys[j])]
        ELSE Undefined

\* responsive variant: the text to show for prev = [a] and a new item, or Undefined
LookupByScan(a, item) ==
    LET key == FindKey(a, item)
    IN  IF Truthy(key) THEN Get(summaries, key) ELSE Undefined

LookupBySortedKey_Unsorted(a, item) ==
    LET key == Join(<<a, item>>)
    IN  IF Truthy(Get(summaries, key)) THEN Get(summaries, key) ELSE Undefined

\* fixed-size variant: the text to show for prev = [a] and a new item, or Undefined
LookupBySortedKey(a, item) ==
    LET key == Join(SortPair(a, item))
    IN  IF Truthy(Get(summaries, key)) THEN Get(summaries, key) ELSE Undefined

\* the branch `prev.length === 1` takes the pair when this is not Undefined
PairLookup(a, item) ==
    IF variant = "responsive" THEN LookupByScan(a, item) ELSE LookupBySortedKey(a, item)

NewSelection_AcceptAny(prev, item) ==
    IF Includes(prev, item) THEN Without(prev, item)
    ELSE IF Len(prev) = 0 THEN <<item>>
    ELSE IF Len(prev) = 1 THEN <<prev[1], item>>
    ELSE <<item>>

NewSelection_Append(prev, item) ==
    IF Includes(prev, item) THEN Without(prev, item)
    ELSE IF Len(prev) = 0 THEN <<item>>
    ELSE IF Len(prev) = 1
         THEN IF PairLookup(prev[1], item) # Undefined THEN <<prev[1], item>> ELSE prev
    ELSE Append(prev, item)

NewSelection_ReplaceFirst(prev, item) ==
    IF Len(prev) = 2 THEN <<item>>
    ELSE IF Includes(prev, item) THEN Without(prev, item)
    ELSE IF Len(prev) = 0 THEN <<item>>
    ELSE IF PairLookup(prev[1], item) # Undefined THEN <<prev[1], item>> ELSE prev

\* newSelection of the updater passed to setSelectedItems
NewSelection(prev, item) ==
    IF Includes(prev, item) THEN Without(prev, item)
    ELSE IF Len(prev) = 0 THEN <<item>>
    ELSE IF Len(prev) = 1
         THEN IF PairLookup(prev[1], item) # Undefined THEN <<prev[1], item>> ELSE prev
    ELSE <<item>>

NewSummary_KeepOnShrink(prev, prevSummary, item) ==
    IF ~Includes(prev, item) /\ Len(prev) = 1 /\ PairLookup(prev[1], item) # Undefined
    THEN PairLookup(prev[1], item)
    ELSE IF Len(NewSelection(prev, item)) = 0 THEN "" ELSE prevSummary

\* the summary after the updater's setSummary calls
NewSummary(prev, prevSummary, item) ==
    LET afterLookup ==
            IF ~Includes(prev, item) /\ Len(prev) = 1 /\ PairLookup(prev[1], item) # Undefined
            THEN PairLookup(prev[1], item)
            ELSE prevSummary
    IN  IF Len(NewSelection(prev, item)) # 2 THEN "" ELSE afterLookup

handleNodeSelect(prev, prevSummary, item) ==
    [selectedItems |-> NewSelection(prev, item),
     summary       |-> NewSummary(prev, prevSummary, item)]

handleReset_KeepSummary ==
    [selectedItems |-> <<>>, summary |-> summary, activeTab |-> 0]

\* the state handleReset sets
handleReset ==
    [selectedItems |-> <<>>, summary |-> "", activeTab |-> 0]

-----------------------------------------------------------------------------
(* Derived views.                                                          *)

\* array.flatMap(key => key.split(','))
RECURSIVE FlatSplit(_)
FlatSplit(keys) ==
    IF Len(keys) = 0 THEN <<>> ELSE Split(Head(keys)) \o FlatSplit(Tail(keys))

PartnersOf_KeepSelected(selected) ==
    LET mine  == SelectSeq(ObjectKeys(summaries), LAMBDA k : Includes(Split(k), selected))
    IN  FlatSplit(mine)

\* the names that share a key with `selected`, `selected` itself dropped
PartnersOf(selected) ==
    LET mine  == SelectSeq(ObjectKeys(summaries), LAMBDA k : Includes(Split(k), selected))
    IN  SelectSeq(FlatSplit(mine), LAMBDA x : x # selected)

availableNodes_NoKeyFilter(data, sel) ==
    IF Len(sel) = 0 THEN data.children
    ELSE IF Len(sel) = 1
         THEN SelectSeq(data.children, LAMBDA x : x # sel[1])
    ELSE <<>>

\* ForceGraph.availableNodes: the leaves of category `data` that are drawn
availableNodes(data, sel) ==
    IF Len(sel) = 0 THEN data.children
    ELSE IF Len(sel) = 1
         THEN SelectSeq(PartnersOf(sel[1]), LAMBDA x : Includes(data.children, x))
    ELSE <<>>

\* availableTabs of the responsive variant
availableTabs(sel) ==
    IF Len(sel) = 0 THEN mindmapData.children
    ELSE IF Len(sel) = 1
         THEN LET availableItems == PartnersOf(sel[1])
              IN  SelectSeq(mindmapData.children,
                            LAMBDA c : \E i \in 1..Len(c.children) :
                                           Includes(availableItems, c.children[i]))
    ELSE <<>>

\* the categories Tab.List and Tab.Panels are mapped over
TabList(sel) ==
    IF variant = "responsive" THEN availableTabs(sel) ELSE mindmapData.children

\* the responsive variant renders the Tab.Group only while fewer than two items
\* are selected
GroupRendered(sel) == variant = "fixed" \/ Len(sel) < 2

\* the categories whose panel can be the one shown: the tab at activeTab, or,
\* when activeTab is past the end of the list, whichever the tab library falls
\* back to
ShownCategories(sel, tab) ==
    IF ~GroupRendered(sel) THEN {}
    ELSE IF tab < Len(TabList(sel)) THEN {TabList(sel)[tab + 1]}
    ELSE Range(TabList(sel))

\* the tabs on screen
VisibleTabs(sel) == IF GroupRendered(sel) THEN TabList(sel) ELSE <<>>

GraphNodes_AllLeaves(data, sel) == <<data.name>> \o data.children

\* nodes of the layout effect: the hub, then the available leaves
GraphNodes(data, sel) == <<data.name>> \o availableNodes(data, sel)

\* nodes.find(n => n.name === child), as an index into nodes
FirstIndexOf(nodes, child) ==
    CHOOSE i \in 1..Len(nodes) :
        /\ nodes[i] = child
        /\ \A j \in 1..(i - 1) : nodes[j] # child

\* links of the layout effect over `nodes`: one per available leaf, from nodes[0]
GraphLinks(nodes) ==
    [i \in 1..(Len(nodes) - 1) |->
        [source |-> 1, target |-> FirstIndexOf(nodes, nodes[i + 1])]]

\* the container widths updateDimensions may measure; the responsive
\* effect draws nothing while the width is 0
Widths == {0, 1024}

\* what the svg of the shown panel can hold after a render with the primed
\* state: `same` says that the panel instance is the one of the last render
DrawResults(sel, tab, w, same) ==
    IF ShownCategories(sel, tab) = {} THEN {<<>>}
    ELSE IF variant = "responsive" /\ w = 0 THEN {IF same THEN drawn ELSE <<>>}
    ELSE {GraphNodes(c, sel) : c \in ShownCategories(sel, tab)}

SamePanel(sel, tab) ==
    /\ ShownCategories(selectedItems, activeTab) # {}
    /\ ShownCategories(sel, tab) # {}
    /\ tab = activeTab

\* the layout effect runs to its end: a panel is mounted and, in the
\* responsive variant, the measured width is not 0
Builds(sel, tab, w) ==
    /\ ShownCategories(sel, tab) # {}
    /\ ~(variant = "responsive" /\ w = 0)

Min(a, b) == IF a < b THEN a ELSE b

\* the simulations left running by the cleanup of the previous layout effect:
\* the responsive variant stops its simulation, the fixed-size variant
\* returns no cleanup
OrphansAfterCleanup ==
    IF variant = "fixed" /\ simStatus = "running"
    THEN Min(orphans + 1, MaxOrphans)
    ELSE orphans

\* nodes are built anew from the leaf names; nodes[0] is the category object
FreshLeafFx == {}

\* the effects of a render with the state (sel, tab, w): the cleanup of the
\* previous layout effect, then the layout effect
Rerender(sel, tab, w, same) ==
    /\ drawn' \in DrawResults(sel, tab, w, same)
    /\ rebuilt' = Builds(sel, tab, w)
    /\ simStatus' = IF Builds(sel, tab, w) THEN "running" ELSE "none"
    /\ leafFx' = IF Builds(sel, tab, w) THEN FreshLeafFx ELSE leafFx \cap Range(drawn')
    /\ orphans' = OrphansAfterCleanup
    /\ UNCHANGED hubFx

\* a state update that React bails out of: nothing is rendered
NoRender ==
    /\ rebuilt' = FALSE
    /\ UNCHANGED <<drawn, simStatus, leafFx, hubFx, orphans>>

-----------------------------------------------------------------------------
(* Initial state and operations.                                           *)

\* names handed to handleNodeSelect by the controller-level specification:
\* the leaves of the candidate pairs, a leaf without any summary, a category
\* (hub) name and the root name
ItemNames ==
    UNION {{CandidatePairs[i][1], CandidatePairs[i][2]} : i \in 1..NumPairs}
        \cup {"ITSM", "Technologies", "ITOM Market"}

Init ==
    /\ summaries \in PairingTables
    /\ variant \in {"responsive", "fixed"}
    /\ selectedItems = <<>>
    /\ summary = ""
    /\ activeTab = 0
    /\ width \in (IF variant = "responsive" THEN Widths ELSE {600})
    /\ drawn \in DrawResults(<<>>, 0, width, FALSE)
    /\ simStatus = (IF Builds(<<>>, 0, width) THEN "running" ELSE "none")
    /\ leafFx = {}
    /\ hubFx = {}
    /\ orphans = 0
    /\ rebuilt = Builds(<<>>, 0, width)
    /\ calls = <<>>
    /\ last = [op |-> "init", item |-> "", hub |-> FALSE,
               selectedItems |-> <<>>, summary |-> ""]

Before(op, item, hub) ==
    [op |-> op, item |-> item, hub |-> hub,
     selectedItems |-> selectedItems, summary |-> summary]

\* handleNodeSelect(item), followed by the render it causes; the updater
\* returning prev itself with the summary as it was causes none
NodeSelect(item) ==
    LET r == handleNodeSelect(selectedItems, summary, item)
    IN  /\ selectedItems' = r.selectedItems
        /\ summary' = r.summary
        /\ IF r.selectedItems = selectedItems /\ r.summary = summary
           THEN NoRender
           ELSE Rerender(r.selectedItems, activeTab, width,
                         SamePanel(r.selectedItems, activeTab))
        /\ UNCHANGED <<summaries, variant, activeTab, width>>

\* a call of the controller's selectItem with any name
SelectItem(item) ==
    /\ Len(calls) < MaxCalls
    /\ NodeSelect(item)
    /\ calls' = Append(calls, item)
    /\ last' = Before("selectItem", item, item \in HubNames)

\* the Reset button
Reset ==
    /\ selectedItems' = handleReset.selectedItems
    /\ summary' = handleReset.summary
    /\ activeTab' = handleReset.activeTab
    /\ Rerender(handleReset.selectedItems, handleReset.activeTab, width,
                SamePanel(handleReset.selectedItems, handleReset.activeTab))
    /\ calls' = <<>>
    /\ last' = Before("reset", "", FALSE)
    /\ UNCHANGED <<summaries, variant, width>>

\* a click on the i-th node of the drawn graph; node 1 is the hub
ClickNode(i) ==
    /\ i \in 1..Len(drawn)
    /\ NodeSelect(drawn[i])
    /\ last' = Before("click", drawn[i], i = 1)
    /\ UNCHANGED calls

SwitchTab_ClearsSelection(t) ==
    /\ GroupRendered(selectedItems)
    /\ t \in 0..(Len(TabList(selectedItems)) - 1)
    /\ t # activeTab
    /\ activeTab' = t
    /\ selectedItems' = <<>>
    /\ summary' = ""
    /\ Rerender(<<>>, t, width, FALSE)
    /\ last' = Before("tab", "", FALSE)
    /\ UNCHANGED <<summaries, variant, width, calls>>

\* a click on the t-th tab: onChange = setActiveTab
SwitchTab(t) ==
    /\ GroupRendered(selectedItems)
    /\ t \in 0..(Len(TabList(selectedItems)) - 1)
    /\ t # activeTab
    /\ activeTab' = t
    /\ Rerender(selectedItems, t, width, FALSE)
    /\ last' = Before("tab", "", FALSE)
    /\ UNCHANGED <<summaries, variant, selectedItems, summary, width, calls>>

\* a window resize: updateDimensions measures the container
Resize(w) ==
    /\ variant = "responsive"
    /\ ShownCategories(selectedItems, activeTab) # {}
    /\ width' = w
    /\ Rerender(selectedItems, activeTab, w, TRUE)
    /\ last' = Before("resize", "", FALSE)
    /\ UNCHANGED <<summaries, variant, selectedItems, summary, activeTab, calls>>

\* a step of the running simulation: the tick handler moves lines and groups
Tick ==
    /\ simStatus = "running"
    /\ rebuilt' = FALSE
    /\ last' = Before("tick", "", FALSE)
    /\ UNCHANGED <<summaries, variant, selectedItems, summary, activeTab, width, drawn,
                   simStatus, leafFx, hubFx, orphans, calls>>

\* what the "end" handler leaves on the nodes: the responsive variant copies
\* x, y to fx, fy on every node, nodes[0] being the category object itself;
\* the fixed-size variant registers no such handler
PinsAtEnd ==
    IF variant = "responsive"
    THEN [leaf |-> Range(Tail(drawn)), hub |-> hubFx \cup {drawn[1]}]
    ELSE [leaf |-> leafFx, hub |-> hubFx]

\* the running simulation has cooled down and fires "end"
End ==
    /\ simStatus = "running"
    /\ Cardinality(PinsAtEnd.hub) <= MaxPinnedHubs
    /\ simStatus' = "ended"
    /\ leafFx' = PinsAtEnd.leaf
    /\ hubFx' = PinsAtEnd.hub
    /\ rebuilt' = FALSE
    /\ last' = Before("end", "", FALSE)
    /\ UNCHANGED <<summaries, variant, selectedItems, summary, activeTab, width, drawn,
                   orphans, calls>>

\* a drag of a node of the fixed-size variant, from its start to its end:
\* dragstarted restarts the simulation, dragended clears the fx, fy the
\* gesture had set on the node
Drag(i) ==
    /\ variant = "fixed"
    /\ i \in 1..Len(drawn)
    /\ simStatus' = "running"
    /\ leafFx' = leafFx \ {drawn[i]}
    /\ hubFx' = IF i = 1 THEN hubFx \ {drawn[1]} ELSE hubFx
    /\ rebuilt' = FALSE
    /\ last' = Before("drag", drawn[i], i = 1)
    /\ UNCHANGED <<summaries, variant, selectedItems, summary, activeTab, width, drawn,
                   orphans, calls>>

\* a step of a simulation whose graph was replaced or removed
StaleTick ==
    /\ orphans > 0
    /\ rebuilt' = FALSE
    /\ last' = Before("staleTick", "", FALSE)
    /\ UNCHANGED <<summaries, variant, selectedItems, summary, activeTab, width, drawn,
                   simStatus, leafFx, hubFx, orphans, calls>>

\* such a simulation cools down; at the counting limit others may remain
StaleEnd ==
    /\ orphans > 0
    /\ orphans' \in (IF orphans = MaxOrphans THEN {orphans - 1, orphans} ELSE {orphans - 1})
    /\ rebuilt' = FALSE
    /\ last' = Before("staleEnd", "", FALSE)
    /\ UNCHANGED <<summaries, variant, selectedItems, summary, activeTab, width, drawn,
                   simStatus, leafFx, hubFx, calls>>

\* the controller driven through its two operations, with any names
Next ==
    \/ \E item \in ItemNames : SelectItem(item)
    \/ Reset

Spec == Init /\ [][Next]_vars

\* the application driven through what it shows
NextUI ==
    \/ \E i \in 1..(1 + Cardinality(LeafItems)) : ClickNode(i)
    \/ \E t \in 0..(Len(mindmapData.children) - 1) : SwitchTab(t)
    \/ \E w \in Widths : Resize(w)
    \/ Reset

SpecUI == Init /\ [][NextUI]_vars

\* the application with its simulations, for the table holding every candidate pair
InitSim == Init /\ Len(summaries) = NumPairs

NextSim ==
    \/ \E i \in 1..(1 + Cardinality(LeafItems)) : ClickNode(i)
    \/ \E t \in 0..(Len(mindmapData.children) - 1) : SwitchTab(t)
    \/ \E w \in Widths : Resize(w)
    \/ Reset
    \/ Tick
    \/ End
    \/ \E i \in 1..(1 + Cardinality(LeafItems)) : Drag(i)
    \/ StaleTick
    \/ StaleEnd

SpecSim == InitSim /\ [][NextSim]_vars

-----------------------------------------------------------------------------
(* Properties.                                                             *)

\* the controller state after the calls of `seq`, made one after the other from `st`
RECURSIVE RunFrom(_, _)
RunFrom(st, seq) ==
    IF Len(seq) = 0 THEN st
    ELSE RunFrom(handleNodeSelect(st.selectedItems, st.summary, Head(seq)), Tail(seq))

EmptySelection == [selectedItems |-> <<>>, summary |-> ""]

\* the lookup of the prev.length === 1 branch in variant v
LookupFor(v, a, item) ==
    IF v = "responsive" THEN LookupByScan(a, item) ELSE LookupBySortedKey(a, item)

\* handleNodeSelect of variant v: the selection and the summary it sets
StepFor(v, st, item) ==
    LET prev == st.selectedItems
    IN  IF Includes(prev, item)
        THEN [selectedItems |-> Without(prev, item), summary |-> ""]
        ELSE IF Len(prev) = 0
        THEN [selectedItems |-> <<item>>, summary |-> ""]
        ELSE IF Len(prev) = 1
        THEN LET found == LookupFor(v, prev[1], item)
             IN  IF found # Undefined
                 THEN [selectedItems |-> <<prev[1], item>>, summary |-> found]
                 ELSE [selectedItems |-> prev, summary |-> ""]
        ELSE [selectedItems |-> <<item>>, summary |-> ""]

\* variant v after the calls of `seq`, made one after the other from `st`
RECURSIVE RunFor(_, _, _)
RunFor(v, st, seq) ==
    IF Len(seq) = 0 THEN st
    ELSE RunFor(v, StepFor(v, st, Head(seq)), Tail(seq))

\* a and b are leaves of different categories and the table has their pair
ValidPair(a, b) == CrossCategory(a, b) /\ HasEntry(a, b)

\* the last operation was selectItem on a selection of n entries
SelectedOn(n) == last.op = "selectItem" /\ Len(last.selectedItems) = n

\* C1: a two-entry selection consists of two distinct items whose pair has an
\* entry in the Pairing Table, in every state reachable by selectItem and reset.
C1_TwoEntriesArePaired ==
    Len(selectedItems) = 2 =>
        /\ selectedItems[1] # selectedItems[2]
        /\ HasEntry(selectedItems[1], selectedItems[2])

C1_Witness ==
    /\ SelectedOn(1)
    /\ Len(selectedItems) = 2

\* C2: the selection never holds more than two entries.
C2_SelectionBound == Len(selectedItems) <= 2

C2_Witness ==
    /\ SelectedOn(2)
    /\ ~Includes(last.selectedItems, last.item)
    /\ Len(selectedItems) = 1

\* C3 as stated: for a valid cross-category pair (a,b), selectItem(a) then
\* selectItem(b) from the empty selection yields the same selection sequence
\* and the same summary as selectItem(b) then selectItem(a).
C3_SameSequenceEitherOrder ==
    (Len(calls) = 2 /\ ValidPair(calls[1], calls[2])) =>
        LET other == RunFrom(EmptySelection, <<calls[2], calls[1]>>)
        IN  /\ selectedItems = other.selectedItems
            /\ summary = other.summary

\* C3 amended: for a valid cross-category pair (a,b), the two orders yield the
\* same set of selected items, {a,b}, and the same summary; the selection
\* sequence itself follows the order of the calls.
C3_SameSetEitherOrder ==
    (Len(calls) = 2 /\ ValidPair(calls[1], calls[2])) =>
        LET other == RunFrom(EmptySelection, <<calls[2], calls[1]>>)
        IN  /\ selectedItems = <<calls[1], calls[2]>>
            /\ other.selectedItems = <<calls[2], calls[1]>>
            /\ summary = other.summary
            /\ summary = EntryText(calls[1], calls[2])

C3_Witness ==
    /\ Len(calls) = 2
    /\ ValidPair(calls[1], calls[2])
    /\ StrLess(calls[2], calls[1])
    /\ Len(selectedItems) = 2

\* C4: selectItem(b) on a one-entry selection [a], b another name with no
\* table entry for {a,b}, leaves selection and summary unchanged; from the
\* empty selection, selectItem(a) then selectItem(b) for two such leaf items
\* leaves selection = [a] and summary = "".
C4_InvalidPairRejected ==
    /\ (/\ SelectedOn(1)
        /\ last.item # last.selectedItems[1]
        /\ ~HasEntry(last.selectedItems[1], last.item))
       => (selectedItems = last.selectedItems /\ summary = last.summary)
    /\ (/\ Len(calls) = 2
        /\ calls[1] # calls[2]
        /\ {calls[1], calls[2]} \subseteq LeafItems
        /\ ~HasEntry(calls[1], calls[2]))
       => (selectedItems = <<calls[1]>> /\ summary = "")

C4_Witness ==
    /\ Len(calls) = 2
    /\ calls[1] # calls[2]
    /\ {calls[1], calls[2]} \subseteq LeafItems
    /\ ~HasEntry(calls[1], calls[2])
    /\ PartnersOf(calls[1]) # <<>>
    /\ PartnersOf(calls[2]) # <<>>
    /\ selectedItems = <<calls[1]>>

\* the items of eligibleItems(category), over all categories
EligibleAnywhere(sel) == UNION {Range(availableNodes(c, sel)) : c \in Categories}

\* C5: with a one-item selection [a], every item x of eligibleItems(category)
\* has a table entry for {a,x}, and selectItem(x) is accepted: the selection
\* becomes [a,x] and the summary that entry's text.
C5_EligibleItemsAccepted ==
    /\ Len(selectedItems) = 1 =>
          \A x \in EligibleAnywhere(selectedItems) :
              /\ HasEntry(selectedItems[1], x)
              /\ handleNodeSelect(selectedItems, summary, x)
                   = [selectedItems |-> <<selectedItems[1], x>>,
                      summary |-> EntryText(selectedItems[1], x)]
    /\ (SelectedOn(1) /\ last.item \in EligibleAnywhere(last.selectedItems))
          => /\ selectedItems = <<last.selectedItems[1], last.item>>
             /\ summary = EntryText(last.selectedItems[1], last.item)

C5_Witness ==
    /\ SelectedOn(1)
    /\ last.item \in EligibleAnywhere(last.selectedItems)
    /\ selectedItems = <<last.selectedItems[1], last.item>>
    /\ summary # ""

\* C6 as stated: for a valid pair (a,b), selectItem(a), selectItem(b),
\* selectItem(a) from the empty selection ends with selection = [a], summary = "".
C6_ThirdClickReselects ==
    (/\ Len(calls) = 3
     /\ calls[3] = calls[1]
     /\ ValidPair(calls[1], calls[2]))
    => (selectedItems = <<calls[1]>> /\ summary = "")

\* C6 amended: for a valid pair (a,b), selectItem(a), selectItem(b),
\* selectItem(a) from the empty selection ends with selection = [b] and
\* summary = "": the third click, on an item of the full selection, deselects it.
C6_ThirdClickDeselects ==
    (/\ Len(calls) = 3
     /\ calls[3] = calls[1]
     /\ ValidPair(calls[1], calls[2]))
    => (selectedItems = <<calls[2]>> /\ summary = "")

C6_Witness ==
    /\ Len(calls) = 3
    /\ calls[3] = calls[1]
    /\ ValidPair(calls[1], calls[2])
    /\ Len(last.selectedItems) = 2
    /\ last.summary # ""

\* C7: selectItem(x) for an x already in the selection removes exactly x and
\* keeps any other selected item, the selection shrinks by one and the summary
\* is empty afterwards; selectItem(a) twice from the empty selection ends with
\* selection = [] and summary = "".
C7_Deselect ==
    /\ (last.op = "selectItem" /\ Includes(last.selectedItems, last.item))
       => /\ Range(selectedItems) = Range(last.selectedItems) \ {last.item}
          /\ Len(selectedItems) = Len(last.selectedItems) - 1
          /\ summary = ""
    /\ (Len(calls) = 2 /\ calls[1] = calls[2])
       => (selectedItems = <<>> /\ summary = "")

C7_Witness ==
    /\ SelectedOn(2)
    /\ last.summary # ""
    /\ last.item = last.selectedItems[2]
    /\ selectedItems = <<last.selectedItems[1]>>

\* C8: reset() yields selection = [] and summary = "" from every state, and
\* a reset applied to the state a reset left changes nothing.
C8_Reset ==
    last.op = "reset" =>
        /\ selectedItems = <<>>
        /\ summary = ""
        /\ handleReset = [selectedItems |-> selectedItems, summary |-> summary,
                          activeTab |-> activeTab]

C8_Witness ==
    /\ last.op = "reset"
    /\ Len(last.selectedItems) = 2
    /\ last.summary # ""

\* C9: a click on a category's hub node leaves selection and summary exactly
\* as they were.
C9_HubClickNoOp ==
    (last.op = "click" /\ last.hub)
    => (selectedItems = last.selectedItems /\ summary = last.summary)

\* C10: selectItem(name) for a name that is no leaf item of any category
\* leaves selection and summary unchanged, whatever the selection holds.
C10_UnknownNameNoOp ==
    (last.op = "selectItem" /\ last.item \notin LeafItems)
    => (selectedItems = last.selectedItems /\ summary = last.summary)

\* eligibleItems(category) as the specification defines it
EligibleItemsRef(c, sel) ==
    IF Len(sel) = 0 THEN Range(c.children)
    ELSE IF Len(sel) = 1
         THEN {x \in Range(c.children) : x # sel[1] /\ HasEntry(sel[1], x)}
    ELSE {}

\* eligibleCategories() as the specification defines it
EligibleCategoriesRef(sel) ==
    IF Len(sel) = 0 THEN mindmapData.children
    ELSE IF Len(sel) = 1
         THEN SelectSeq(mindmapData.children, LAMBDA c : EligibleItemsRef(c, sel) # {})
    ELSE <<>>

\* C11: in every reachable state with two selected entries no category graph
\* is shown and no category tab is visible, so that no node is there to click.
C11_NothingShownAtTwoEntries ==
    Len(selectedItems) = 2 =>
        /\ drawn = <<>>
        /\ VisibleTabs(selectedItems) = <<>>

\* C12: the visible category tabs are eligibleCategories(): every category
\* with the empty selection, the categories with a non-empty eligibleItems
\* with one entry, none with two.
C12_TabsAreEligibleCategories ==
    VisibleTabs(selectedItems) = EligibleCategoriesRef(selectedItems)

\* C13: every full rebuild of a layout starts with no pinned node, the hub
\* included, also after an earlier simulation has ended and pinned its nodes.
C13_RebuildStartsUnpinned ==
    rebuilt =>
        /\ leafFx = {}
        /\ drawn[1] \notin hubFx

\* C14: the simulation of a rebuilt or removed graph is stopped: no earlier
\* simulation runs beside the current one or fires a tick.
C14_OldSimulationsStopped ==
    /\ orphans = 0
    /\ last.op \notin {"staleTick", "staleEnd"}

\* C15: when a category graph is shown (a panel is mounted with a measured
\* width other than 0), its nodes are the hub and the leaves of
\* eligibleItems(category), each once; its links are one per leaf, from the hub
\* to that leaf; and the layout was built anew by a tab switch and by a change
\* of the selection.
C15_GraphIsHubAndEligibleLeaves ==
    Builds(selectedItems, activeTab, width) =>
        /\ \E c \in ShownCategories(selectedItems, activeTab) :
              /\ drawn[1] = c.name
              /\ Range(Tail(drawn)) = EligibleItemsRef(c, selectedItems)
              /\ Len(drawn) = 1 + Cardinality(EligibleItemsRef(c, selectedItems))
        /\ Len(GraphLinks(drawn)) = Len(drawn) - 1
        /\ \A i \in 1..(Len(drawn) - 1) :
              GraphLinks(drawn)[i] = [source |-> 1, target |-> i + 1]
        /\ (\/ last.op = "tab"
            \/ last.op \in {"click", "reset"} /\ selectedItems # last.selectedItems)
           => rebuilt

C15_Witness ==
    /\ last.op = "click"
    /\ last.selectedItems = <<>>
    /\ Len(selectedItems) = 1
    /\ rebuilt
    /\ Len(drawn) >= 2
    /\ \E c \in Categories : c.name = drawn[1] /\ Len(drawn) < 1 + Len(c.children)

\* C16: for every selection and category, eligibleItems(category) computed by
\* availableNodes is the reference set: all leaves with the empty selection;
\* with [a], the leaves x other than a with a table entry for {a,x}; none with
\* two entries; and no leaf is listed twice.
C16_EligibleItemsIsReference ==
    \A c \in Categories :
        /\ Range(availableNodes(c, selectedItems)) = EligibleItemsRef(c, selectedItems)
        /\ Len(availableNodes(c, selectedItems)) = Cardinality(EligibleItemsRef(c, selectedItems))

C16_Witness ==
    /\ last.op = "click"
    /\ Len(selectedItems) = 1
    /\ \E c \in Categories : availableNodes(c, selectedItems) # <<>>
    /\ \E c \in Categories :
          /\ Includes(c.children, selectedItems[1])
          /\ availableNodes(c, selectedItems) = <<>>

\* C17: a tab switch, a resize, a simulation tick and a simulation end (and a
\* drag, and the ticks of simulations left running) leave the selection and
\* the summary as they were.
C17_ViewEventsKeepSelection ==
    last.op \in {"tab", "resize", "tick", "end", "drag", "staleTick", "staleEnd"}
    => (selectedItems = last.selectedItems /\ summary = last.summary)

C17_Witness ==
    /\ last.op = "end"
    /\ Len(selectedItems) = 1
    /\ simStatus = "ended"

\* C18: selectItem(x) on a two-entry selection that does not hold x sets the
\* selection to [x] and clears the summary, whether or not x pairs with
\* either entry.
C18_ThirdItemReplaces ==
    (SelectedOn(2) /\ ~Includes(last.selectedItems, last.item))
    => (selectedItems = <<last.item>> /\ summary = "")

C18_Witness ==
    /\ SelectedOn(2)
    /\ ~Includes(last.selectedItems, last.item)
    /\ HasEntry(last.selectedItems[2], last.item)
    /\ selectedItems = <<last.item>>

\* C19: run side by side on the same table and the same calls, the variant
\* that scans the keys and the variant that builds the sorted key hold the
\* same selection and summary after every call: the one the program reached.
C19_VariantsAgree ==
    LET reached == [selectedItems |-> selectedItems, summary |-> summary]
    IN  /\ RunFor("responsive", EmptySelection, calls) = reached
        /\ RunFor("fixed", EmptySelection, calls) = reached

C19_Witness ==
    /\ SelectedOn(1)
    /\ Len(selectedItems) = 2
    /\ StrLess(selectedItems[2], selectedItems[1])
    /\ Len(calls) = 2

\* C20: the summary is non-empty exactly when two entries are selected, and
\* it is then the table text of the two selected items.
C20_SummaryIffPair ==
    /\ summary # "" <=> Len(selectedItems) = 2
    /\ Len(selectedItems) = 2 => summary = EntryText(selectedItems[1], selectedItems[2])

C20_Witness ==
    /\ Len(selectedItems) = 2
    /\ summary = EntryText(selectedItems[1], selectedItems[2])
    /\ summary # ""

\* C21: whenever category tabs are visible, activeTab is the index of one of
\* them, also right after selecting a first item has shortened the tab list.
C21_ActiveTabIsVisible ==
    VisibleTabs(selectedItems) # <<>> => activeTab < Len(VisibleTabs(selectedItems))

=============================================================================
